---- MODULE Spec2Model ----
(***************************************************************************)
(* Model of src/controller/admin/metalController.js: the twelve request    *)
(* handlers of the Metal entity.  Each handler is one action that runs the *)
(* whole try/catch body on a request and on the outcomes of the            *)
(* collaborators it calls (schema validator, dbService,                    *)
(* deleteDependentService), and leaves behind the list of collaborator     *)
(* calls and the list of response helpers it invoked.                      *)
(***************************************************************************)
EXTENDS Naturals, Sequences, FiniteSets

VARIABLES handler, req, env, calls, responses, thrown, escaped, store

vars == <<handler, req, env, calls, responses, thrown, escaped, store>>

----------------------------------------------------------------------------
(* Bounds *)

\* longest array a request carries in body.data or body.ids
MaxBulk == 2

----------------------------------------------------------------------------
(* JavaScript values *)

\* the value undefined (an absent key reads as undefined)
Undef == "undefined"

\* !v is false exactly for the truthy values
Truthy(v) == v \notin {Undef, "null", "false", "", "0"}

\* typeof v === 'object' && v !== null
IsNonNullObject(v) == v = "object"

\* ids of the records the collection can hold; all are well-formed object ids
RecIds == {"r1", "r2"}

\* what a client can send as req.params.id: nothing, a malformed id, a well-formed one
IdVals == {Undef, "bad", "r1"}

UserIds == {"u1"}

\* an entity object: one data field and the bookkeeping fields; Undef = no such key
Payload ==
  [name : {Undef, "gold"}, addedBy : {Undef, "u2"}, updatedBy : {Undef, "u2"},
   isDeleted : {Undef, "true"}]

\* what a client sends as an entity object
Item == {p \in Payload : p.updatedBy = Undef /\ p.isDeleted = Undef}

\* the elements of a bulk insert: with and without a creator of the client's choice
BulkItem == {p \in Item : p.name = "gold"}

EmptyObj == [name |-> Undef, addedBy |-> Undef, updatedBy |-> Undef, isDeleted |-> Undef]

SeqsUpTo(S, n) == UNION {[1..k -> S] : k \in 0..n}

\* a value of body.data / body.ids: t is its kind, items its elements
\* (for t = "object", items holds the one object)
NoValue == [t |-> Undef, items |-> <<>>]
StringValue == [t |-> "string", items |-> <<>>]
ArrayOf(s) == [t |-> "array", items |-> s]
ObjectOf(p) == [t |-> "object", items |-> <<p>>]

\* Array.isArray(v)
IsArray(v) == v.t = "array"

\* !v is false: the value is there (a non-empty string, an object, an array)
ValueTruthy(v) == v.t # Undef

\* req.body: present = FALSE is a request without a body
NoFields ==
  [present |-> TRUE, name |-> Undef, addedBy |-> Undef, updatedBy |-> Undef,
   isDeleted |-> Undef,
   data |-> NoValue, ids |-> NoValue, isWarning |-> Undef, isCountOnly |-> Undef,
   query |-> Undef, options |-> Undef, where |-> Undef, filter |-> Undef]

NoBody == [NoFields EXCEPT !.present = FALSE]

\* a body that is an entity object
EntityBody(p) == [NoFields EXCEPT !.name = p.name, !.addedBy = p.addedBy]

\* the entity fields of an object, as { ...obj } copies them; { ...undefined } is {}
Fields(b) ==
  IF b.present
    THEN [name |-> b.name, addedBy |-> b.addedBy, updatedBy |-> b.updatedBy,
          isDeleted |-> b.isDeleted]
    ELSE EmptyObj

\* req.user: present = FALSE is a request without a user context
NoUser == [present |-> FALSE, id |-> Undef]
Users == {NoUser} \cup {[present |-> TRUE, id |-> u] : u \in UserIds}

Request(b, id, u) == [body |-> b, id |-> id, user |-> u]

\* ObjectId.isValid(id)
IsValidObjectId(id) == id \in RecIds

----------------------------------------------------------------------------
(* Error messages *)

TypeErrBody == "TypeError: cannot read properties of undefined (req.body)"
TypeErrUser == "TypeError: cannot read properties of undefined (req.user)"
ValidatorErr == "validator error"
DbErr == "dbService error"
DependentErr == "deleteDependent error"

----------------------------------------------------------------------------
(* Logs *)

\* one call of a collaborator: q the query (or the schema of a validator call),
\* ids the list of a $in query, opts the options, docs the objects handed over,
\* out what the collaborator answered ("throw" = it threw), sent the number of
\* responses the handler had sent when it made the call
Call(fn, q, ids, opts, docs, out) ==
  [fn |-> fn, q |-> q, ids |-> ids, opts |-> opts, docs |-> docs, out |-> out, sent |-> 0]

\* the call c, made after the responses r
After(r, c) == [c EXCEPT !.sent = Len(r)]

Validate(fn, schema, docs, out) == Call(fn, schema, <<>>, Undef, docs, out)
Db(fn, q, opts, docs, out) == Call(fn, q, <<>>, opts, docs, out)
Dependent(fn, q, ids, docs, out) == Call(fn, q, ids, Undef, docs, out)

Response(helper, message, data) == [helper |-> helper, message |-> message, data |-> data]

Result(c, r, t, e) == [calls |-> c, responses |-> r, thrown |-> t, escaped |-> e]

\* return res.<helper>(...)
Reply(c, r, helper, message, data) ==
  Result(c, Append(r, Response(helper, message, data)), "none", FALSE)

\* Catch with the error thrown on instead of answered
CatchRethrows(c, r, msg) == Result(c, r, msg, TRUE)

\* catch (error) { return res.internalServerError({ message:error.message }); }
Catch(c, r, msg) ==
  Result(c, Append(r, Response("internalServerError", msg, Undef)), msg, FALSE)

\* new Metal(obj): the document keeps the fields of the schema
NewMetal(obj) == obj

\* the result of dbService.paginate as the handler inspects it
PageResult(out) ==
  [found |-> out # "null", hasData |-> out \in {"empty", "page"},
   length |-> IF out = "page" THEN 1 ELSE 0]

----------------------------------------------------------------------------
(* Handlers *)

addMetal(r, e) ==
  LET dataToCreate == Fields(r.body)
      c1 == <<Validate("validateParamsWithJoi", "schemaKeys", <<dataToCreate>>, e.valOut)>>
  IN IF e.valOut = "throw" THEN Catch(c1, <<>>, ValidatorErr)
     ELSE IF e.valOut # "valid"
       THEN Reply(c1, <<>>, "validationError", "Invalid values in parameters", Undef)
     ELSE IF ~r.user.present THEN Catch(c1, <<>>, TypeErrUser)
     ELSE LET doc == NewMetal([dataToCreate EXCEPT !.addedBy = r.user.id])
              c2 == Append(c1, Db("dbService.create", Undef, Undef, <<doc>>, e.dbOut))
          IN IF e.dbOut = "throw" THEN Catch(c2, <<>>, DbErr)
             ELSE Reply(c2, <<>>, "success", "", e.dbOut)

\* bulkInsertMetal with addedBy written before the spread, so the client's value wins
bulkInsertMetalClientCreator(r, e) ==
  IF r.body.present /\ (~IsArray(r.body.data) \/ Len(r.body.data.items) < 1)
    THEN Reply(<<>>, <<>>, "badRequest", "", Undef)
  ELSE IF ~r.body.present THEN Catch(<<>>, <<>>, TypeErrBody)
  ELSE IF ~r.user.present THEN Catch(<<>>, <<>>, TypeErrUser)
  ELSE LET items == r.body.data.items
           dataToCreate ==
             [i \in 1..Len(items) |->
                IF items[i].addedBy # Undef THEN items[i]
                ELSE [items[i] EXCEPT !.addedBy = r.user.id]]
           c1 == <<Db("dbService.create", Undef, Undef, dataToCreate, e.dbOut)>>
       IN IF e.dbOut = "throw" THEN Catch(c1, <<>>, DbErr)
          ELSE Reply(c1, <<>>, "success", "",
                     IF Truthy(e.dbOut) THEN "count:length" ELSE "count:0")

bulkInsertMetal(r, e) ==
  IF r.body.present /\ (~IsArray(r.body.data) \/ Len(r.body.data.items) < 1)
    THEN Reply(<<>>, <<>>, "badRequest", "", Undef)
  ELSE IF ~r.body.present THEN Catch(<<>>, <<>>, TypeErrBody)
  ELSE IF ~r.user.present THEN Catch(<<>>, <<>>, TypeErrUser)
  ELSE LET items == r.body.data.items
           dataToCreate == [i \in 1..Len(items) |-> [items[i] EXCEPT !.addedBy = r.user.id]]
           c1 == <<Db("dbService.create", Undef, Undef, dataToCreate, e.dbOut)>>
       IN IF e.dbOut = "throw" THEN Catch(c1, <<>>, DbErr)
          ELSE Reply(c1, <<>>, "success", "",
                     IF Truthy(e.dbOut) THEN "count:length" ELSE "count:0")

findAllMetal(r, e) ==
  LET c1 == <<Validate("validateFilterWithJoi", "findFilterKeys", <<>>, e.valOut)>>
  IN IF e.valOut = "throw" THEN Catch(c1, <<>>, ValidatorErr)
     ELSE IF e.valOut # "valid" THEN Reply(c1, <<>>, "validationError", "invalid filter", Undef)
     ELSE IF ~r.body.present THEN Catch(c1, <<>>, TypeErrBody)
     ELSE LET query == IF IsNonNullObject(r.body.query) THEN r.body.query ELSE "{}"
          IN IF Truthy(r.body.isCountOnly)
               THEN LET c2 == Append(c1, Db("dbService.count", query, Undef, <<>>, e.dbOut))
                    IN IF e.dbOut = "throw" THEN Catch(c2, <<>>, DbErr)
                       ELSE Reply(c2, <<>>, "success", "", "totalRecords")
               ELSE LET options == IF IsNonNullObject(r.body.options)
                                     THEN r.body.options ELSE "{}"
                        c2 == Append(c1, Db("dbService.paginate", query, options, <<>>, e.dbOut))
                        foundMetals == PageResult(e.dbOut)
                    IN IF e.dbOut = "throw" THEN Catch(c2, <<>>, DbErr)
                       ELSE IF ~foundMetals.found \/ ~foundMetals.hasData
                               \/ foundMetals.length = 0
                         THEN Reply(c2, <<>>, "recordNotFound", "", Undef)
                       ELSE Reply(c2, <<>>, "success", "", e.dbOut)

\* getMetal without the check of the record found
getMetalNoNotFound(r, e) ==
  IF ~IsValidObjectId(r.id)
    THEN Reply(<<>>, <<>>, "validationError", "invalid objectId.", Undef)
  ELSE LET c1 == <<Db("dbService.findOne", r.id, "{}", <<>>, e.dbOut)>>
       IN IF e.dbOut = "throw" THEN Catch(c1, <<>>, DbErr)
          ELSE Reply(c1, <<>>, "success", "", e.dbOut)

getMetal(r, e) ==
  IF ~IsValidObjectId(r.id)
    THEN Reply(<<>>, <<>>, "validationError", "invalid objectId.", Undef)
  ELSE LET c1 == <<Db("dbService.findOne", r.id, "{}", <<>>, e.dbOut)>>
       IN IF e.dbOut = "throw" THEN Catch(c1, <<>>, DbErr)
          ELSE IF ~Truthy(e.dbOut) THEN Reply(c1, <<>>, "recordNotFound", "", Undef)
          ELSE Reply(c1, <<>>, "success", "", e.dbOut)

getMetalCount(r, e) ==
  LET c1 == <<Validate("validateFilterWithJoi", "findFilterKeys", <<>>, e.valOut)>>
  IN IF e.valOut = "throw" THEN Catch(c1, <<>>, ValidatorErr)
     ELSE IF e.valOut # "valid" THEN Reply(c1, <<>>, "validationError", "invalid filter", Undef)
     ELSE IF ~r.body.present THEN Catch(c1, <<>>, TypeErrBody)
     ELSE LET where == IF IsNonNullObject(r.body.where) THEN r.body.where ELSE "{}"
              c2 == Append(c1, Db("dbService.count", where, Undef, <<>>, e.dbOut))
          IN IF e.dbOut = "throw" THEN Catch(c2, <<>>, DbErr)
             ELSE Reply(c2, <<>>, "success", "", "count")

\* updateMetal without the return after validationError
updateMetalNoReturn(r, e) ==
  IF ~r.user.present THEN Catch(<<>>, <<>>, TypeErrUser)
  ELSE LET dataToUpdate == [Fields(r.body) EXCEPT !.updatedBy = r.user.id]
           c1 == <<Validate("validateParamsWithJoi", "updateSchemaKeys",
                            <<dataToUpdate>>, e.valOut)>>
           r0 == IF e.valOut = "invalid"
                   THEN <<Response("validationError", "Invalid values in parameters", Undef)>>
                   ELSE <<>>
       IN IF e.valOut = "throw" THEN Catch(c1, <<>>, ValidatorErr)
          ELSE LET c2 == Append(c1, After(r0, Db("dbService.updateOne", r.id, Undef,
                                                 <<dataToUpdate>>, e.dbOut)))
               IN IF e.dbOut = "throw" THEN Catch(c2, r0, DbErr)
                  ELSE IF ~Truthy(e.dbOut) THEN Reply(c2, r0, "recordNotFound", "", Undef)
                  ELSE Reply(c2, r0, "success", "", e.dbOut)

updateMetal(r, e) ==
  IF ~r.user.present THEN Catch(<<>>, <<>>, TypeErrUser)
  ELSE LET dataToUpdate == [Fields(r.body) EXCEPT !.updatedBy = r.user.id]
           c1 == <<Validate("validateParamsWithJoi", "updateSchemaKeys",
                            <<dataToUpdate>>, e.valOut)>>
       IN IF e.valOut = "throw" THEN Catch(c1, <<>>, ValidatorErr)
          ELSE IF e.valOut # "valid"
            THEN Reply(c1, <<>>, "validationError", "Invalid values in parameters", Undef)
          ELSE LET c2 == Append(c1, Db("dbService.updateOne", r.id, Undef,
                                       <<dataToUpdate>>, e.dbOut))
               IN IF e.dbOut = "throw" THEN Catch(c2, <<>>, DbErr)
                  ELSE IF ~Truthy(e.dbOut) THEN Reply(c2, <<>>, "recordNotFound", "", Undef)
                  ELSE Reply(c2, <<>>, "success", "", e.dbOut)

bulkUpdateMetal(r, e) ==
  LET filter == IF r.body.present /\ Truthy(r.body.filter) THEN r.body.filter ELSE "{}"
      isObj == r.body.present /\ r.body.data.t = "object"
  IN IF isObj /\ ~r.user.present THEN Catch(<<>>, <<>>, TypeErrUser)
     ELSE LET dataToUpdate ==
                IF isObj THEN [r.body.data.items[1] EXCEPT !.updatedBy = r.user.id]
                ELSE [EmptyObj EXCEPT !.addedBy = Undef]
              c1 == <<Db("dbService.updateMany", filter, Undef, <<dataToUpdate>>, e.dbOut)>>
          IN IF e.dbOut = "throw" THEN Catch(c1, <<>>, DbErr)
             ELSE IF ~Truthy(e.dbOut) THEN Reply(c1, <<>>, "recordNotFound", "", Undef)
             ELSE Reply(c1, <<>>, "success", "", e.dbOut)

partialUpdateMetal(r, e) ==
  LET r0 == IF ~Truthy(r.id)
              THEN <<Response("badRequest",
                              "Insufficient request parameters! id is required.", Undef)>>
              ELSE <<>>
  IN IF ~r.body.present THEN Catch(<<>>, r0, TypeErrBody)
     ELSE IF ~r.user.present THEN Catch(<<>>, r0, TypeErrUser)
     ELSE LET body == [r.body EXCEPT !.addedBy = Undef]
              dataToUpdate == [Fields(body) EXCEPT !.updatedBy = r.user.id]
              c1 == <<After(r0, Validate("validateParamsWithJoi", "updateSchemaKeys",
                                         <<dataToUpdate>>, e.valOut))>>
          IN IF e.valOut = "throw" THEN Catch(c1, r0, ValidatorErr)
             ELSE IF e.valOut # "valid"
               THEN Reply(c1, r0, "validationError", "Invalid values in parameters", Undef)
             ELSE LET c2 == Append(c1, After(r0, Db("dbService.updateOne", r.id, Undef,
                                                    <<dataToUpdate>>, e.dbOut)))
                  IN IF e.dbOut = "throw" THEN Catch(c2, r0, DbErr)
                     ELSE IF ~Truthy(e.dbOut) THEN Reply(c2, r0, "recordNotFound", "", Undef)
                     ELSE Reply(c2, r0, "success", "", e.dbOut)

softDeleteMetal(r, e) ==
  IF ~Truthy(r.id)
    THEN Reply(<<>>, <<>>, "badRequest",
               "Insufficient request parameters! id is required.", Undef)
  ELSE IF ~r.user.present THEN Catch(<<>>, <<>>, TypeErrUser)
  ELSE LET updateBody == [EmptyObj EXCEPT !.isDeleted = "true", !.updatedBy = r.user.id]
           c1 == <<Dependent("deleteDependentService.softDeleteMetal", r.id, <<>>,
                             <<updateBody>>, e.dbOut)>>
       IN IF e.dbOut = "throw" THEN Catch(c1, <<>>, DependentErr)
          ELSE IF ~Truthy(e.dbOut) THEN Reply(c1, <<>>, "recordNotFound", "", Undef)
          ELSE Reply(c1, <<>>, "success", "", e.dbOut)

\* deleteMetal deleting whatever the warning flag says
deleteMetalIgnoresWarning(r, e) ==
  IF ~Truthy(r.id)
    THEN Reply(<<>>, <<>>, "badRequest",
               "Insufficient request parameters! id is required.", Undef)
  ELSE IF ~r.body.present THEN Catch(<<>>, <<>>, TypeErrBody)
  ELSE LET c1 == <<Dependent("deleteDependentService.deleteMetal", r.id, <<>>,
                             <<>>, e.dbOut)>>
       IN IF e.dbOut = "throw" THEN Catch(c1, <<>>, DependentErr)
          ELSE IF ~Truthy(e.dbOut) THEN Reply(c1, <<>>, "recordNotFound", "", Undef)
          ELSE Reply(c1, <<>>, "success", "", e.dbOut)

deleteMetal(r, e) ==
  IF ~Truthy(r.id)
    THEN Reply(<<>>, <<>>, "badRequest",
               "Insufficient request parameters! id is required.", Undef)
  ELSE IF ~r.body.present THEN Catch(<<>>, <<>>, TypeErrBody)
  ELSE LET c1 == IF Truthy(r.body.isWarning)
                   THEN <<Dependent("deleteDependentService.countMetal", r.id, <<>>,
                                    <<>>, e.dbOut)>>
                   ELSE <<Dependent("deleteDependentService.deleteMetal", r.id, <<>>,
                                    <<>>, e.dbOut)>>
       IN IF e.dbOut = "throw" THEN Catch(c1, <<>>, DependentErr)
          ELSE IF ~Truthy(e.dbOut) THEN Reply(c1, <<>>, "recordNotFound", "", Undef)
          ELSE Reply(c1, <<>>, "success", "", e.dbOut)

deleteManyMetal(r, e) ==
  IF ~r.body.present THEN Catch(<<>>, <<>>, TypeErrBody)
  ELSE LET ids == r.body.ids
       IN IF ~ValueTruthy(ids) \/ ~IsArray(ids) \/ Len(ids.items) < 1
            THEN Reply(<<>>, <<>>, "badRequest", "", Undef)
          ELSE LET c1 == IF Truthy(r.body.isWarning)
                           THEN <<Dependent("deleteDependentService.countMetal", "$in",
                                            ids.items, <<>>, e.dbOut)>>
                           ELSE <<Dependent("deleteDependentService.deleteMetal", "$in",
                                            ids.items, <<>>, e.dbOut)>>
               IN IF e.dbOut = "throw" THEN Catch(c1, <<>>, DependentErr)
                  ELSE IF ~Truthy(e.dbOut) THEN Reply(c1, <<>>, "recordNotFound", "", Undef)
                  ELSE Reply(c1, <<>>, "success", "", e.dbOut)

softDeleteManyMetal(r, e) ==
  IF ~r.body.present THEN Catch(<<>>, <<>>, TypeErrBody)
  ELSE LET ids == r.body.ids
       IN IF ~ValueTruthy(ids) \/ ~IsArray(ids) \/ Len(ids.items) < 1
            THEN Reply(<<>>, <<>>, "badRequest", "", Undef)
          ELSE IF ~r.user.present THEN Catch(<<>>, <<>>, TypeErrUser)
          ELSE LET updateBody == [EmptyObj EXCEPT !.isDeleted = "true",
                                                  !.updatedBy = r.user.id]
                   c1 == <<Dependent("deleteDependentService.softDeleteMetal", "$in",
                                     ids.items, <<updateBody>>, e.dbOut)>>
               IN IF e.dbOut = "throw" THEN Catch(c1, <<>>, DependentErr)
                  ELSE IF ~Truthy(e.dbOut) THEN Reply(c1, <<>>, "recordNotFound", "", Undef)
                  ELSE Reply(c1, <<>>, "success", "", e.dbOut)

----------------------------------------------------------------------------
(* The collection *)

\* the ids a query selects
Matching(c) == IF c.q = "$in" THEN {c.ids[i] : i \in 1..Len(c.ids)} ELSE {c.q}

Answered(c) == c.out # "throw"

\* the ids of the documents a call of dbService.create inserts
Created(s, c) ==
  IF c.fn = "dbService.create" /\ Answered(c)
    THEN CHOOSE N \in SUBSET (RecIds \ s) : Cardinality(N) = Len(c.docs)
    ELSE {}

\* a create that answers needs room in the bounded collection
Fits(s, cs) ==
  \A i \in 1..Len(cs) :
    cs[i].fn = "dbService.create" /\ Answered(cs[i])
      => Len(cs[i].docs) <= Cardinality(RecIds \ s)

\* the collection after one collaborator call: create inserts, the dependent
\* deletion removes what the query selects, every other call keeps the records
ApplyCall(s, c) ==
  IF c.fn = "dbService.create" THEN s \cup Created(s, c)
  ELSE IF c.fn = "deleteDependentService.deleteMetal" /\ Answered(c) THEN s \ Matching(c)
  ELSE s

RECURSIVE ApplyCalls(_, _)
ApplyCalls(s, cs) ==
  IF cs = <<>> THEN s ELSE ApplyCalls(ApplyCall(s, Head(cs)), Tail(cs))

----------------------------------------------------------------------------
(* State machine *)

\* the outcomes of the collaborators during one request: what the validator
\* answers, and what the data-access call answers if the handler gets to it
\* ("none" = the handler has no such call, or the validator stopped it)
Validated(D) ==
  [valOut : {"valid"}, dbOut : D] \cup [valOut : {"invalid", "throw"}, dbOut : {"none"}]
Unvalidated(D) == [valOut : {"none"}, dbOut : D]

FlagVals == {Undef, "false", "true"}
FilterVals == {Undef, "null", "object"}

\* values of body.data for the bulk insert and of body.ids for the bulk deletes
ArrayVals(S) == {NoValue, StringValue} \cup {ArrayOf(s) : s \in SeqsUpTo(S, MaxBulk)}

\* the request has been handled: its logs replace those of the request before
Commit(r, e, res) ==
  /\ Fits(store, res.calls)
  /\ req' = r
  /\ env' = e
  /\ calls' = res.calls
  /\ responses' = res.responses
  /\ thrown' = res.thrown
  /\ escaped' = res.escaped
  /\ store' = ApplyCalls(store, res.calls)

Init ==
  /\ handler = "none"
  /\ req = Request(NoBody, Undef, NoUser)
  /\ env = [valOut |-> "none", dbOut |-> "none"]
  /\ calls = <<>>
  /\ responses = <<>>
  /\ thrown = "none"
  /\ escaped = FALSE
  /\ store \in SUBSET RecIds

AddMetal ==
  \E b \in {NoBody} \cup {EntityBody(p) : p \in Item}, u \in Users,
     e \in Validated({"doc", "throw"}) :
    /\ handler' = "addMetal"
    /\ LET r == Request(b, Undef, u)
       IN Commit(r, e, addMetal(r, e))

BulkInsertMetal ==
  \E d \in ArrayVals(BulkItem) \cup {ObjectOf(EmptyObj)}, present \in BOOLEAN, u \in Users,
     e \in Unvalidated({"docs", "null", "throw"}) :
    /\ handler' = "bulkInsertMetal"
    /\ LET r == Request([NoFields EXCEPT !.present = present, !.data = d], Undef, u)
       IN Commit(r, e, bulkInsertMetal(r, e))

FindAllMetal ==
  \E q \in FilterVals, o \in {Undef, "object"}, f \in {Undef, "true"}, present \in BOOLEAN,
     e \in Validated({"null", "nodata", "empty", "page", "throw"}) :
    /\ handler' = "findAllMetal"
    /\ LET r == Request([NoFields EXCEPT !.present = present, !.query = q, !.options = o,
                                      !.isCountOnly = f], Undef, NoUser)
       IN Commit(r, e, findAllMetal(r, e))

GetMetal ==
  \E id \in IdVals, e \in Unvalidated({"null", "doc", "throw"}) :
    /\ handler' = "getMetal"
    /\ LET r == Request(NoFields, id, NoUser)
       IN Commit(r, e, getMetal(r, e))

GetMetalCount ==
  \E w \in FilterVals, present \in BOOLEAN, e \in Validated({"0", "count", "throw"}) :
    /\ handler' = "getMetalCount"
    /\ LET r == Request([NoFields EXCEPT !.present = present, !.where = w], Undef, NoUser)
       IN Commit(r, e, getMetalCount(r, e))

UpdateMetal ==
  \E b \in {NoBody} \cup {EntityBody(p) : p \in Item}, id \in IdVals, u \in Users,
     e \in Validated({"null", "doc", "throw"}) :
    /\ handler' = "updateMetal"
    /\ LET r == Request(b, id, u)
       IN Commit(r, e, updateMetal(r, e))

BulkUpdateMetal ==
  \E d \in {NoValue, StringValue} \cup {ObjectOf(p) : p \in Item},
     f \in {Undef, "object"}, present \in BOOLEAN, u \in Users,
     e \in Unvalidated({"0", "count", "throw"}) :
    /\ handler' = "bulkUpdateMetal"
    /\ LET r == Request([NoFields EXCEPT !.present = present, !.data = d, !.filter = f],
                     Undef, u)
       IN Commit(r, e, bulkUpdateMetal(r, e))

PartialUpdateMetal ==
  \E b \in {NoBody} \cup {EntityBody(p) : p \in Item}, id \in IdVals, u \in Users,
     e \in Validated({"null", "doc", "throw"}) :
    /\ handler' = "partialUpdateMetal"
    /\ LET r == Request(b, id, u)
       IN Commit(r, e, partialUpdateMetal(r, e))

SoftDeleteMetal ==
  \E id \in IdVals, u \in Users, e \in Unvalidated({"null", "doc", "throw"}) :
    /\ handler' = "softDeleteMetal"
    /\ LET r == Request(NoFields, id, u)
       IN Commit(r, e, softDeleteMetal(r, e))

DeleteMetal ==
  \E id \in IdVals, w \in FlagVals, present \in BOOLEAN,
     e \in Unvalidated({"null", "result", "throw"}) :
    /\ handler' = "deleteMetal"
    /\ LET r == Request([NoFields EXCEPT !.present = present, !.isWarning = w], id, NoUser)
       IN Commit(r, e, deleteMetal(r, e))

DeleteManyMetal ==
  \E ids \in ArrayVals(RecIds), w \in FlagVals, present \in BOOLEAN,
     e \in Unvalidated({"null", "result", "throw"}) :
    /\ handler' = "deleteManyMetal"
    /\ LET r == Request([NoFields EXCEPT !.present = present, !.ids = ids, !.isWarning = w],
                     Undef, NoUser)
       IN Commit(r, e, deleteManyMetal(r, e))

SoftDeleteManyMetal ==
  \E ids \in ArrayVals(RecIds), present \in BOOLEAN, u \in Users,
     e \in Unvalidated({"null", "result", "throw"}) :
    /\ handler' = "softDeleteManyMetal"
    /\ LET r == Request([NoFields EXCEPT !.present = present, !.ids = ids], Undef, u)
       IN Commit(r, e, softDeleteManyMetal(r, e))

Next ==
  \/ AddMetal
  \/ BulkInsertMetal
  \/ FindAllMetal
  \/ GetMetal
  \/ GetMetalCount
  \/ UpdateMetal
  \/ BulkUpdateMetal
  \/ PartialUpdateMetal
  \/ SoftDeleteMetal
  \/ DeleteMetal
  \/ DeleteManyMetal
  \/ SoftDeleteManyMetal

Spec == Init /\ [][Next]_vars

----------------------------------------------------------------------------
(* Properties *)

CallIdx == 1..Len(calls)
RespIdx == 1..Len(responses)

Fns == {calls[i].fn : i \in CallIdx}
Helpers == {responses[i].helper : i \in RespIdx}

Validators == {"validateParamsWithJoi", "validateFilterWithJoi"}
Writes == {"dbService.create", "dbService.updateOne", "dbService.updateMany"}
DataAccess == Writes \cup {"dbService.count", "dbService.paginate", "dbService.findOne"}
DependentFns ==
  {"deleteDependentService.softDeleteMetal", "deleteDependentService.countMetal",
   "deleteDependentService.deleteMetal"}

\* the response the request ends with
Answer == responses[Len(responses)].helper

ReportedInvalid == \E i \in CallIdx : calls[i].fn \in Validators /\ calls[i].out = "invalid"

\* C1: in addMetal, updateMetal, partialUpdateMetal, findAllMetal and
\* getMetalCount, a request the validator reports invalid is answered with
\* validationError and no data-access call is made for it.
C1_InvalidNeverReachesDb ==
  (handler \in {"addMetal", "updateMetal", "partialUpdateMetal", "findAllMetal",
                "getMetalCount"} /\ ReportedInvalid)
    => /\ responses # <<>>
       /\ Answer = "validationError"
       /\ Fns \cap DataAccess = {}

C1_Witness ==
  /\ handler = "updateMetal"
  /\ ReportedInvalid
  /\ req.body.present
  /\ req.id = "r1"
  /\ Answer = "validationError"

\* the object lines up with the one validated, the creator stamp aside
SameButCreator(d, v) == [d EXCEPT !.addedBy = Undef] = [v EXCEPT !.addedBy = Undef]

PassedValidation(i, d) ==
  \E j \in 1..(i - 1) :
    /\ calls[j].fn = "validateParamsWithJoi"
    /\ calls[j].out = "valid"
    /\ \E k \in 1..Len(calls[j].docs) : SameButCreator(d, calls[j].docs[k])

\* C2: in addMetal, bulkInsertMetal, updateMetal, bulkUpdateMetal and
\* partialUpdateMetal every object handed to dbService.create, updateOne or
\* updateMany has passed schema validation earlier in the same request.
C2_WritesAreValidated ==
  \A i \in CallIdx :
    calls[i].fn \in Writes
      => \A k \in 1..Len(calls[i].docs) : PassedValidation(i, calls[i].docs[k])

IdHandlers == {"getMetal", "updateMetal", "partialUpdateMetal", "softDeleteMetal", "deleteMetal"}

\* C3: in getMetal, updateMetal, partialUpdateMetal, softDeleteMetal and
\* deleteMetal an id that is not a valid object identifier is answered with a
\* client error, and neither the data-access layer nor the dependent-deletion
\* helper is called (requests that end in a thrown error are left to C6).
C3_InvalidIdRejected ==
  (handler \in IdHandlers /\ ~IsValidObjectId(req.id) /\ thrown = "none")
    => /\ Helpers \subseteq {"validationError", "badRequest"}
       /\ Helpers # {}
       /\ Fns \cap (DataAccess \cup DependentFns) = {}

\* the bulk array of the request, undefined when the body itself is absent
BulkArray ==
  IF ~req.body.present THEN NoValue
  ELSE IF handler = "bulkInsertMetal" THEN req.body.data ELSE req.body.ids

\* C4: bulkInsertMetal, deleteManyMetal and softDeleteManyMetal answer
\* badRequest and call nothing when the array is absent (also with the whole
\* body absent), is not an array, or is empty.
C4_EmptyBulkRejected ==
  (/\ handler \in {"bulkInsertMetal", "deleteManyMetal", "softDeleteManyMetal"}
   /\ (~IsArray(BulkArray) \/ Len(BulkArray.items) = 0))
    => /\ Helpers = {"badRequest"}
       /\ calls = <<>>

Returned(fn, outs) == \E i \in CallIdx : calls[i].fn = fn /\ calls[i].out \in outs

SuccessWith(d) == \E j \in RespIdx : responses[j].helper = "success" /\ responses[j].data = d

\* C5: getMetal answers recordNotFound exactly when findOne returned no
\* record and success, carrying the record, exactly when it returned one;
\* findAllMetal without isCountOnly answers recordNotFound exactly when the
\* page is missing or has no or an empty data list, and success exactly when
\* the page has data; no request gets both answers.
C5_NotFoundDistinct ==
  /\ handler = "getMetal"
       => /\ ("recordNotFound" \in Helpers) = Returned("dbService.findOne", {"null"})
          /\ ("success" \in Helpers) = Returned("dbService.findOne", {"doc"})
          /\ "success" \in Helpers => SuccessWith("doc")
  /\ (handler = "findAllMetal" /\ ~Truthy(req.body.isCountOnly))
       => /\ ("recordNotFound" \in Helpers)
               = Returned("dbService.paginate", {"null", "nodata", "empty"})
          /\ ("success" \in Helpers) = Returned("dbService.paginate", {"page"})
  /\ handler \in {"getMetal", "findAllMetal"}
       => ~({"recordNotFound", "success"} \subseteq Helpers)

C5_Witness ==
  /\ handler = "getMetal"
  /\ req.id = "r1"
  /\ Returned("dbService.findOne", {"null"})
  /\ Answer = "recordNotFound"

\* the message of the error a throwing collaborator raises
ErrorOf(fn) ==
  IF fn \in Validators THEN ValidatorErr
  ELSE IF fn \in DependentFns THEN DependentErr
  ELSE DbErr

\* C6: in each of the 12 handlers an error thrown while handling the request
\* does not escape; the request is answered with internalServerError carrying
\* the error's message and gets no success or recordNotFound response.
C6_ErrorsCaught ==
  /\ \A i \in CallIdx : calls[i].out = "throw" => thrown = ErrorOf(calls[i].fn)
  /\ thrown # "none"
       => /\ ~escaped
          /\ responses # <<>>
          /\ responses[Len(responses)]
               = Response("internalServerError", thrown, Undef)
          /\ Helpers \cap {"success", "recordNotFound"} = {}

C6_Witness ==
  /\ handler = "partialUpdateMetal"
  /\ \E i \in CallIdx : calls[i].fn = "dbService.updateOne" /\ calls[i].out = "throw"
  /\ thrown = DbErr
  /\ Answer = "internalServerError"

\* C7: in deleteMetal and deleteManyMetal a truthy isWarning makes
\* countMetal the only helper called and leaves the stored records as they
\* were; a falsy isWarning makes deleteMetal the only helper called.
C7_WarningDeletesNothing ==
  [][handler' \in {"deleteMetal", "deleteManyMetal"}
       => /\ Truthy(req'.body.isWarning)
               => /\ {calls'[i].fn : i \in 1..Len(calls')}
                       \subseteq {"deleteDependentService.countMetal"}
                  /\ store' = store
          /\ ~Truthy(req'.body.isWarning)
               => {calls'[i].fn : i \in 1..Len(calls')}
                    \subseteq {"deleteDependentService.deleteMetal"}]_vars

C7_Witness ==
  /\ handler = "deleteMetal"
  /\ Truthy(req.body.isWarning)
  /\ Fns = {"deleteDependentService.countMetal"}
  /\ calls[1].out = "result"
  /\ req.id \in store

\* C8: every object addMetal or bulkInsertMetal hands to dbService.create
\* has addedBy equal to req.user.id, whatever addedBy the client sent.
C8_CreatorIsRequestingUser ==
  handler \in {"addMetal", "bulkInsertMetal"}
    => \A i \in CallIdx :
         calls[i].fn = "dbService.create"
           => /\ req.user.present
              /\ \A k \in 1..Len(calls[i].docs) : calls[i].docs[k].addedBy = req.user.id

C8_Witness ==
  /\ handler = "bulkInsertMetal"
  /\ Len(req.body.data.items) = 2
  /\ req.body.data.items[2].addedBy = "u2"
  /\ \E i \in CallIdx : calls[i].fn = "dbService.create" /\ Len(calls[i].docs) = 2

\* C9: every invocation of a handler calls exactly one response helper
\* exactly once, also with req.params.id missing, and makes no validation or
\* database call after a response has been sent.
C9_OneResponse ==
  handler # "none"
    => /\ Len(responses) = 1
       /\ \A i \in CallIdx : calls[i].sent = 0

\* C10: the update object partialUpdateMetal hands to dbService.updateOne
\* and bulkUpdateMetal hands to dbService.updateMany has no addedBy key, and
\* when it carries an update (any field at all) its updatedBy is req.user.id.
C10_CreatorNotUpdated ==
  handler \in {"partialUpdateMetal", "bulkUpdateMetal"}
    => \A i \in CallIdx :
         calls[i].fn \in {"dbService.updateOne", "dbService.updateMany"}
           => \A k \in 1..Len(calls[i].docs) :
                /\ calls[i].docs[k].addedBy = Undef
                /\ calls[i].docs[k] # EmptyObj
                     => calls[i].docs[k].updatedBy = req.user.id

====
